---- MODULE Spec2Model ----
(***************************************************************************)
(* The HTTP wrapper of web/main.py around the transcript collaborator:     *)
(* the four endpoints, the language selection of the fetch endpoint and   *)
(* the except-chains that turn collaborator failures into responses.      *)
(*                                                                         *)
(* Text is a sequence of tokens.  A token is a word, a video identifier,   *)
(* a punctuation mark or one blank; identifiers and language codes are     *)
(* atomic, so "contains the contiguous text" is "contains the contiguous   *)
(* token sequence".                                                        *)
(***************************************************************************)
EXTENDS Integers, Sequences, FiniteSets, TLC

\* Longest language_codes query value, in tokens.
MaxRaw == 3

VARIABLES
    collab,     \* what the collaborator currently answers
    request,    \* the request being served, NoRequest when idle
    response,   \* the response the handler produced for it
    calls,      \* the collaborator calls the handler made, in order
    frames,     \* per request in progress: the locals of its handler call
    asked,      \* per connection: the request its client sent
    remembered  \* one request served earlier, with the response it got

vars == <<collab, request, response, calls, frames, asked, remembered>>

\* What serving one request at a time leaves alone.
serving == <<frames, asked, remembered>>

----------------------------------------------------------------------------
\* Text

Sp == " "

RECURSIVE Words(_)
Words(ws) ==
    IF Len(ws) <= 1 THEN ws ELSE <<Head(ws), Sp>> \o Words(Tail(ws))

Quoted(t) == <<"'">> \o t \o <<"'">>

Contains(text, phrase) ==
    \E i \in 0..(Len(text) - Len(phrase)) :
        SubSeq(text, i + 1, i + Len(phrase)) = phrase

RECURSIVE SeqsUpTo(_, _)
SeqsUpTo(S, n) ==
    IF n = 0 THEN {<<>>}
    ELSE LET shorter == SeqsUpTo(S, n - 1)
         IN  shorter \cup {Append(s, x) : s \in shorter, x \in S}

----------------------------------------------------------------------------
\* Inputs

Videos == {"v1", "v2"}

en == <<"en">>
de == <<"de">>
xx == <<"xx">>

\* Language codes the collaborator may hold a transcript for.
Keys == {en, de}

\* Values of source_language_code and target_language_code.
CodeInputs == {en, de, xx}

\* Values of the language_codes query parameter.
RawAlphabet == {"en", "de", ",", Sp}
\* Two codes with blanks around them, as in " en , de".
SpacedInputs == {<<Sp, a, Sp, ",", Sp, b>> : a, b \in {"en", "de"}}

RawInputs == SeqsUpTo(RawAlphabet, MaxRaw) \cup SpacedInputs

----------------------------------------------------------------------------
\* Exceptions

LibraryKinds ==
    {"NoTranscriptAvailable", "TranscriptsDisabled", "VideoUnavailable",
     "TooManyRequests", "NoTranscriptFound", "NotTranslatable",
     "TranslationLanguageNotAvailable"}

OtherKind == "RuntimeError"

NoExc == [kind |-> "none", msg |-> <<>>]

\* The failure descriptions of exceptions outside the library's classes.
Descriptions == {<<"connection", Sp, "reset">>, <<"boom">>}

LibraryMessage(kind) == <<"Could", Sp, "not", Sp, "retrieve", ":", Sp, kind>>

CollaboratorExceptions ==
    {[kind |-> k, msg |-> LibraryMessage(k)] : k \in LibraryKinds}
        \cup {[kind |-> OtherKind, msg |-> d] : d \in Descriptions}

\* except <cls> as e: the library's classes are siblings, all are Exceptions.
IsInstance(e, cls) == cls = "Exception" \/ e.kind = cls

Str(e) == e.msg

RECURSIVE ReprCodes(_)
ReprCodes(codes) ==
    IF codes = <<>> THEN <<>>
    ELSE Quoted(Head(codes))
            \o (IF Len(codes) > 1 THEN <<",", Sp>> ELSE <<>>)
            \o ReprCodes(Tail(codes))

\* NoTranscriptFound(video_id, requested_language_codes, transcript_data)
NoTranscriptFound(video_id, codes, data) ==
    [kind |-> "NoTranscriptFound",
     msg  |-> <<"Could", Sp, "not", Sp, "retrieve", Sp, video_id, ":", Sp>>
                \o Words(<<"No", "transcripts", "were", "found", "for", "any",
                           "of", "the", "requested", "language", "codes">>)
                \o <<":", Sp, "[">> \o ReprCodes(codes) \o <<"]", Sp>> \o data]

----------------------------------------------------------------------------
\* The collaborator

Stages == {"list_transcripts", "translate", "fetch"}

NoFault == [stage |-> "none", exc |-> NoExc]

Faults == {NoFault} \cup [stage : Stages, exc : CollaboratorExceptions]

\* An insertion-ordered mapping keyed by language code, as its key order.
OrderedDicts ==
    {s \in SeqsUpTo(Keys, Cardinality(Keys)) :
        \A i, j \in 1..Len(s) : i # j => s[i] # s[j]}

CollabStates ==
    [fault : Faults, manual : OrderedDicts, generated : OrderedDicts]

InDict(key, dict) == \E i \in 1..Len(dict) : dict[i] = key

LanguageName(code) ==
    CASE code = en -> "English"
      [] code = de -> "German"
      [] OTHER     -> "Unknown"

TranslationLanguage(code) ==
    [language |-> LanguageName(code), language_code |-> code]

TranslationLanguagesOf(code, generated) ==
    IF generated /\ code = de THEN <<>>
    ELSE <<TranslationLanguage(en), TranslationLanguage(de)>>

Transcript(video_id, code, generated) ==
    [video_id              |-> video_id,
     language              |-> LanguageName(code),
     language_code         |-> code,
     is_generated          |-> generated,
     translation_languages |-> TranslationLanguagesOf(code, generated),
     is_translatable       |-> Len(TranslationLanguagesOf(code, generated)) > 0]

NoTranscript == Transcript("", <<>>, FALSE)

Segment(text, start, duration) ==
    [text |-> text, start |-> start, duration |-> duration]

SegmentsOf(code) ==
    CASE code = en -> <<Segment("Hello", 0, 1), Segment("world", 1, 1)>>
      [] code = de -> <<Segment("Welt", 1, 1), Segment("Hallo", 0, 1),
                        Segment("Welt", 1, 1)>>
      [] OTHER     -> <<>>

Returned(v) == [raised |-> NoExc, value |-> v]
Raised(e)   == [raised |-> e, value |-> NoTranscript]

Failing(stage) == collab.fault.stage = stage

\* YouTubeTranscriptApi().list_transcripts(video_id)
ApiListTranscripts(video_id) ==
    IF Failing("list_transcripts") THEN Raised(collab.fault.exc)
    ELSE Returned([video_id  |-> video_id,
                   manual    |-> collab.manual,
                   generated |-> collab.generated])

\* TranscriptList.find_transcript(language_codes)
RECURSIVE FindTranscript(_, _, _)
FindTranscript(list, codes, all) ==
    IF codes = <<>>
      THEN Raised(NoTranscriptFound(list.video_id, all, <<"TranscriptList">>))
    ELSE IF InDict(Head(codes), list.manual)
      THEN Returned(Transcript(list.video_id, Head(codes), FALSE))
    ELSE IF InDict(Head(codes), list.generated)
      THEN Returned(Transcript(list.video_id, Head(codes), TRUE))
    ELSE FindTranscript(list, Tail(codes), all)

\* Transcript.translate(language_code)
TranscriptTranslate(t, target) ==
    IF Failing("translate") THEN Raised(collab.fault.exc)
    ELSE IF ~t.is_translatable
      THEN Raised([kind |-> "NotTranslatable",
                   msg  |-> LibraryMessage("NotTranslatable")])
    ELSE IF \A i \in 1..Len(t.translation_languages) :
                t.translation_languages[i].language_code # target
      THEN Raised([kind |-> "TranslationLanguageNotAvailable",
                   msg  |-> LibraryMessage("TranslationLanguageNotAvailable")])
    ELSE Returned([video_id              |-> t.video_id,
                   language              |-> LanguageName(target),
                   language_code         |-> target,
                   is_generated          |-> TRUE,
                   translation_languages |-> <<>>,
                   is_translatable       |-> FALSE])

\* Transcript.fetch()
TranscriptFetch(t) ==
    IF Failing("fetch") THEN Raised(collab.fault.exc)
    ELSE Returned(SegmentsOf(t.language_code))

Call(op, on, arg, raised) ==
    [op |-> op, on |-> on, arg |-> arg, raised |-> raised]

----------------------------------------------------------------------------
\* Responses

HTTPException(status_code, detail) ==
    [status |-> status_code, body |-> [detail |-> detail]]

Ok(body) == [status |-> 200, body |-> body]

NoTranscriptsAvailableDetail(video_id) ==
    Words(<<"No", "transcripts", "available", "for", "video", video_id>>)
        \o <<".">>

\* The message without its placeholder.
TranscriptsDisabledDetailNoId(video_id) ==
    Words(<<"Transcripts", "are", "disabled", "for", "video">>) \o <<".">>

TranscriptsDisabledDetail(video_id) ==
    Words(<<"Transcripts", "are", "disabled", "for", "video", video_id>>)
        \o <<".">>

VideoUnavailableDetail(video_id) ==
    Words(<<"Video", video_id, "not", "found", "or", "unavailable">>)
        \o <<".">>

TooManyRequestsDetail ==
    Words(<<"Too", "many", "requests">>) \o <<".", Sp>>
        \o Words(<<"Please", "try", "again", "later">>) \o <<".">>

UnexpectedDetail(e) ==
    Words(<<"An", "unexpected", "error", "occurred">>) \o <<":", Sp>> \o Str(e)

SourceNotFoundDetail(video_id, source) ==
    Words(<<"No", "transcript", "found", "for", "source", "language">>)
        \o <<Sp>> \o Quoted(source) \o <<Sp>> \o Words(<<"for", "video">>)
        \o <<Sp>> \o Quoted(<<video_id>>) \o <<".">>

\* The message naming the source language where the target belongs.
NotTranslatableDetailOfSource(source, target) ==
    Words(<<"Transcript", "for", "language">>) \o <<Sp>> \o Quoted(source)
        \o <<Sp>> \o Words(<<"is", "not", "translatable", "to">>) \o <<Sp>>
        \o Quoted(source) \o <<".", Sp>>
        \o Words(<<"This", "might", "be", "because", "it's", "the", "same",
                   "language", "or", "an", "invalid", "target">>) \o <<".">>

NotTranslatableDetail(source, target) ==
    Words(<<"Transcript", "for", "language">>) \o <<Sp>> \o Quoted(source)
        \o <<Sp>> \o Words(<<"is", "not", "translatable", "to">>) \o <<Sp>>
        \o Quoted(target) \o <<".", Sp>>
        \o Words(<<"This", "might", "be", "because", "it's", "the", "same",
                   "language", "or", "an", "invalid", "target">>) \o <<".">>

TranslationNotAvailableDetail(source, target) ==
    Words(<<"Cannot", "translate", "from">>) \o <<Sp>> \o Quoted(source)
        \o <<Sp, "to", Sp>> \o Quoted(target) \o <<".", Sp>>
        \o Words(<<"Target", "language", "is", "not", "available", "for",
                   "this", "specific", "transcript">>) \o <<".">>

NoMatchData ==
    Words(<<"Could", "not", "find", "transcript", "for", "any", "of", "the",
            "specified", "languages">>) \o <<".">>

TranslationLanguageMetadata(lang) ==
    [language |-> lang.language, language_code |-> lang.language_code]

\* The entry with the two flags taken from each other's attribute.
TranscriptMetadataFlagsSwapped(t) ==
    [language              |-> t.language,
     language_code         |-> t.language_code,
     is_generated          |-> t.is_translatable,
     is_translatable       |-> t.is_generated,
     translation_languages |->
        [i \in 1..Len(t.translation_languages) |->
            TranslationLanguageMetadata(t.translation_languages[i])]]

TranscriptMetadata(t) ==
    [language              |-> t.language,
     language_code         |-> t.language_code,
     is_generated          |-> t.is_generated,
     is_translatable       |-> t.is_translatable,
     translation_languages |->
        [i \in 1..Len(t.translation_languages) |->
            TranslationLanguageMetadata(t.translation_languages[i])]]

\* FetchedTranscriptSegment.model_validate(segment)
ModelValidate(segment) ==
    [text |-> segment.text, start |-> segment.start,
     duration |-> segment.duration]

----------------------------------------------------------------------------
\* GET /

ReadRootHandler ==
    [response |-> Ok([message |->
                        Words(<<"Welcome", "to", "the", "YouTube",
                                "Transcript", "API", "Wrapper">>)]),
     calls    |-> <<>>]

----------------------------------------------------------------------------
\* GET /videos/{video_id}/transcripts

\* The chain with a last clause that swallows the failure into an empty list.
ListExceptSwallowing(e, video_id) ==
    IF IsInstance(e, "NoTranscriptAvailable")
      THEN HTTPException(404, NoTranscriptsAvailableDetail(video_id))
    ELSE IF IsInstance(e, "TranscriptsDisabled")
      THEN HTTPException(404, TranscriptsDisabledDetail(video_id))
    ELSE IF IsInstance(e, "VideoUnavailable")
      THEN HTTPException(404, VideoUnavailableDetail(video_id))
    ELSE IF IsInstance(e, "TooManyRequests")
      THEN HTTPException(429, TooManyRequestsDetail)
    ELSE Ok([video_id |-> video_id, manually_created_transcripts |-> <<>>,
             generated_transcripts |-> <<>>])

ListExcept(e, video_id) ==
    IF IsInstance(e, "NoTranscriptAvailable")
      THEN HTTPException(404, NoTranscriptsAvailableDetail(video_id))
    ELSE IF IsInstance(e, "TranscriptsDisabled")
      THEN HTTPException(404, TranscriptsDisabledDetail(video_id))
    ELSE IF IsInstance(e, "VideoUnavailable")
      THEN HTTPException(404, VideoUnavailableDetail(video_id))
    ELSE IF IsInstance(e, "TooManyRequests")
      THEN HTTPException(429, TooManyRequestsDetail)
    ELSE HTTPException(500, UnexpectedDetail(e))

ListAfterListing(video_id, listed) ==
    LET c1     == <<Call("list_transcripts", NoTranscript, <<video_id>>,
                         listed.raised)>>
        list   == listed.value
    IN  IF listed.raised # NoExc
          THEN [response |-> ListExcept(listed.raised, video_id), calls |-> c1]
          ELSE [response |-> Ok(
                  [video_id |-> video_id,
                   manually_created_transcripts |->
                      [i \in 1..Len(list.manual) |->
                          TranscriptMetadata(
                              Transcript(video_id, list.manual[i], FALSE))],
                   generated_transcripts |->
                      [i \in 1..Len(list.generated) |->
                          TranscriptMetadata(
                              Transcript(video_id, list.generated[i], TRUE))]]),
                calls |-> c1]

ListTranscriptsHandler(video_id) ==
    ListAfterListing(video_id, ApiListTranscripts(video_id))

----------------------------------------------------------------------------
\* GET /videos/{video_id}/transcripts/fetch

\* str.split(',')
RECURSIVE Split(_)
Split(s) ==
    IF \A i \in 1..Len(s) : s[i] # ","
      THEN <<s>>
      ELSE LET i == CHOOSE k \in 1..Len(s) :
                        s[k] = "," /\ \A j \in 1..(k - 1) : s[j] # ","
           IN  <<SubSeq(s, 1, i - 1)>> \o Split(SubSeq(s, i + 1, Len(s)))

\* str.strip()
RECURSIVE Strip(_)
Strip(s) ==
    IF s = <<>> THEN s
    ELSE IF Head(s) = Sp THEN Strip(Tail(s))
    ELSE IF s[Len(s)] = Sp THEN Strip(SubSeq(s, 1, Len(s) - 1))
    ELSE s

\* The list without the strip of each element.
ParseLanguageCodesUnstripped(language_codes) == Split(language_codes)

ParseLanguageCodes(language_codes) ==
    LET pieces == Split(language_codes)
    IN  [i \in 1..Len(pieces) |-> Strip(pieces[i])]

RECURSIVE FirstIn(_, _)
FirstIn(langs, dict) ==
    IF langs = <<>> THEN <<>>
    ELSE IF InDict(Head(langs), dict) THEN <<Head(langs)>>
    ELSE FirstIn(Tail(langs), dict)

\* The selection with the loops nested the other way round: every preferred
\* code is tried on the manually created mapping before any is tried on the
\* generated one.
SelectManualFirst(langs, list) ==
    IF FirstIn(langs, list.manual) # <<>>
      THEN [found |-> TRUE,
            obj   |-> Transcript(list.video_id,
                                 FirstIn(langs, list.manual)[1], FALSE)]
    ELSE IF FirstIn(langs, list.generated) # <<>>
      THEN [found |-> TRUE,
            obj   |-> Transcript(list.video_id,
                                 FirstIn(langs, list.generated)[1], TRUE)]
    ELSE [found |-> FALSE, obj |-> NoTranscript]

RECURSIVE SelectTranscript(_, _)
SelectTranscript(langs, list) ==
    IF langs = <<>>
      THEN [found |-> FALSE, obj |-> NoTranscript]
    ELSE IF InDict(Head(langs), list.manual)
      THEN [found |-> TRUE,
            obj   |-> Transcript(list.video_id, Head(langs), FALSE)]
    ELSE IF InDict(Head(langs), list.generated)
      THEN [found |-> TRUE,
            obj   |-> Transcript(list.video_id, Head(langs), TRUE)]
    ELSE SelectTranscript(Tail(langs), list)

\* The chain without the rate-limit clause.
FetchExceptNoRateLimit(e, video_id) ==
    IF IsInstance(e, "NoTranscriptFound")
      THEN HTTPException(404, Str(e))
    ELSE IF IsInstance(e, "TranscriptsDisabled")
      THEN HTTPException(404, TranscriptsDisabledDetail(video_id))
    ELSE IF IsInstance(e, "VideoUnavailable")
      THEN HTTPException(404, VideoUnavailableDetail(video_id))
    ELSE HTTPException(500, UnexpectedDetail(e))

FetchExcept(e, video_id) ==
    IF IsInstance(e, "NoTranscriptFound")
      THEN HTTPException(404, Str(e))
    ELSE IF IsInstance(e, "TranscriptsDisabled")
      THEN HTTPException(404, TranscriptsDisabledDetail(video_id))
    ELSE IF IsInstance(e, "VideoUnavailable")
      THEN HTTPException(404, VideoUnavailableDetail(video_id))
    ELSE IF IsInstance(e, "TooManyRequests")
      THEN HTTPException(429, TooManyRequestsDetail)
    ELSE HTTPException(500, UnexpectedDetail(e))

RECURSIVE Deduplicated(_)
Deduplicated(segments) ==
    IF segments = <<>> THEN <<>>
    ELSE LET front == Deduplicated(SubSeq(segments, 1, Len(segments) - 1))
             last  == segments[Len(segments)]
         IN  IF \E i \in 1..Len(front) : front[i] = last
               THEN front ELSE Append(front, last)

\* The response with repeated segments dropped.
FetchedTranscriptResponseDeduplicated(video_id, t, segments) ==
    Ok([video_id      |-> video_id,
        language      |-> t.language,
        language_code |-> t.language_code,
        is_generated  |-> t.is_generated,
        transcript    |-> [i \in 1..Len(Deduplicated(segments)) |->
                              ModelValidate(Deduplicated(segments)[i])]])

FetchedTranscriptResponse(video_id, t, segments) ==
    Ok([video_id      |-> video_id,
        language      |-> t.language,
        language_code |-> t.language_code,
        is_generated  |-> t.is_generated,
        transcript    |-> [i \in 1..Len(segments) |->
                              ModelValidate(segments[i])]])

\* The handler without "if not found_transcript_obj": fetch is called on
\* whatever the loop left, and on None the call is an AttributeError.
FetchAfterSelectUnchecked(video_id, sel, c1) ==
    LET fetched == IF sel.found THEN TranscriptFetch(sel.obj)
                   ELSE Raised([kind |-> "AttributeError",
                                msg  |-> <<"'NoneType'", Sp, "object", Sp,
                                           "has", Sp, "no", Sp, "attribute",
                                           Sp, "'fetch'">>])
        c2      == Append(c1, Call("fetch", sel.obj, <<>>, fetched.raised))
    IN  IF fetched.raised # NoExc
          THEN [response |-> FetchExcept(fetched.raised, video_id),
                calls    |-> c2]
          ELSE [response |-> FetchedTranscriptResponse(
                                 video_id, sel.obj, fetched.value),
                calls    |-> c2]

\* Lines 145-162: raise when nothing was selected, else fetch and answer.
\* The fetch step calling fetch() a second time after a failure.
FetchAfterSelectRetrying(video_id, sel, c1) ==
    IF ~sel.found
      THEN [response |-> FetchExcept(
                NoTranscriptFound(video_id, sel.langs, NoMatchData), video_id),
            calls    |-> c1]
      ELSE LET fetched == TranscriptFetch(sel.obj)
               c2      == Append(c1, Call("fetch", sel.obj, <<>>,
                                          fetched.raised))
               again   == TranscriptFetch(sel.obj)
               c3      == Append(c2, Call("fetch", sel.obj, <<>>,
                                          again.raised))
           IN  IF fetched.raised = NoExc
                 THEN [response |-> FetchedTranscriptResponse(
                                        video_id, sel.obj, fetched.value),
                       calls    |-> c2]
               ELSE IF again.raised # NoExc
                 THEN [response |-> FetchExcept(again.raised, video_id),
                       calls    |-> c3]
                 ELSE [response |-> FetchedTranscriptResponse(
                                        video_id, sel.obj, again.value),
                       calls    |-> c3]

FetchAfterSelect(video_id, sel, c1) ==
    IF ~sel.found
      THEN [response |-> FetchExcept(
                NoTranscriptFound(video_id, sel.langs, NoMatchData), video_id),
            calls    |-> c1]
      ELSE LET fetched == TranscriptFetch(sel.obj)
               c2      == Append(c1, Call("fetch", sel.obj, <<>>,
                                          fetched.raised))
           IN  IF fetched.raised # NoExc
                 THEN [response |-> FetchExcept(fetched.raised, video_id),
                       calls    |-> c2]
                 ELSE [response |-> FetchedTranscriptResponse(
                                        video_id, sel.obj, fetched.value),
                       calls    |-> c2]

FetchAfterListing(video_id, language_codes, listed) ==
    LET langs  == ParseLanguageCodes(language_codes)
        c1     == <<Call("list_transcripts", NoTranscript, <<video_id>>,
                         listed.raised)>>
    IN  IF listed.raised # NoExc
          THEN [response |-> FetchExcept(listed.raised, video_id),
                calls    |-> c1]
          ELSE LET found == SelectTranscript(langs, listed.value)
               IN  FetchAfterSelect(video_id,
                       [found |-> found.found, obj |-> found.obj,
                        langs |-> langs], c1)

\* The handler rejecting an empty language code before it lists anything.
FetchTranscriptHandlerCheckingCodesFirst(video_id, language_codes) ==
    IF \E k \in 1..Len(ParseLanguageCodes(language_codes)) :
          ParseLanguageCodes(language_codes)[k] = <<>>
      THEN [response |-> FetchExcept(
                NoTranscriptFound(video_id, ParseLanguageCodes(language_codes),
                                  NoMatchData), video_id),
            calls    |-> <<>>]
      ELSE FetchAfterListing(video_id, language_codes,
                             ApiListTranscripts(video_id))

FetchTranscriptHandler(video_id, language_codes) ==
    FetchAfterListing(video_id, language_codes, ApiListTranscripts(video_id))

----------------------------------------------------------------------------
\* GET /videos/{video_id}/transcripts/translate

\* The chain without the NoTranscriptFound clause.
TranslateExceptNoSourceClause(e, video_id, source, target) ==
    IF IsInstance(e, "NotTranslatable")
      THEN HTTPException(400, NotTranslatableDetail(source, target))
    ELSE IF IsInstance(e, "TranslationLanguageNotAvailable")
      THEN HTTPException(400, TranslationNotAvailableDetail(source, target))
    ELSE IF IsInstance(e, "TranscriptsDisabled")
      THEN HTTPException(404, TranscriptsDisabledDetail(video_id))
    ELSE IF IsInstance(e, "VideoUnavailable")
      THEN HTTPException(404, VideoUnavailableDetail(video_id))
    ELSE IF IsInstance(e, "TooManyRequests")
      THEN HTTPException(429, TooManyRequestsDetail)
    ELSE HTTPException(500, UnexpectedDetail(e))

\* The chain with NotTranslatable an alias of TranslationLanguageNotAvailable,
\* as the import comment of line 7 has it: the first of the two clauses takes
\* both.
TranslateExceptAliased(e, video_id, source, target) ==
    IF IsInstance(e, "NoTranscriptFound")
      THEN HTTPException(404, SourceNotFoundDetail(video_id, source))
    ELSE IF IsInstance(e, "NotTranslatable")
            \/ IsInstance(e, "TranslationLanguageNotAvailable")
      THEN HTTPException(400, NotTranslatableDetail(source, target))
    ELSE IF IsInstance(e, "TranscriptsDisabled")
      THEN HTTPException(404, TranscriptsDisabledDetail(video_id))
    ELSE IF IsInstance(e, "VideoUnavailable")
      THEN HTTPException(404, VideoUnavailableDetail(video_id))
    ELSE IF IsInstance(e, "TooManyRequests")
      THEN HTTPException(429, TooManyRequestsDetail)
    ELSE HTTPException(500, UnexpectedDetail(e))

TranslateExcept(e, video_id, source, target) ==
    IF IsInstance(e, "NoTranscriptFound")
      THEN HTTPException(404, SourceNotFoundDetail(video_id, source))
    ELSE IF IsInstance(e, "NotTranslatable")
      THEN HTTPException(400, NotTranslatableDetail(source, target))
    ELSE IF IsInstance(e, "TranslationLanguageNotAvailable")
      THEN HTTPException(400, TranslationNotAvailableDetail(source, target))
    ELSE IF IsInstance(e, "TranscriptsDisabled")
      THEN HTTPException(404, TranscriptsDisabledDetail(video_id))
    ELSE IF IsInstance(e, "VideoUnavailable")
      THEN HTTPException(404, VideoUnavailableDetail(video_id))
    ELSE IF IsInstance(e, "TooManyRequests")
      THEN HTTPException(429, TooManyRequestsDetail)
    ELSE HTTPException(500, UnexpectedDetail(e))

TranslatedTranscriptResponse(video_id, source, target, t, segments) ==
    Ok([video_id             |-> video_id,
        source_language_code |-> source,
        target_language_code |-> target,
        language             |-> t.language,
        language_code        |-> t.language_code,
        is_generated         |-> t.is_generated,
        transcript           |-> [i \in 1..Len(segments) |->
                                     ModelValidate(segments[i])]])

\* Lines 198-211: translate the source transcript, fetch the translation.
TranslateAfterFind(video_id, source, target, src, c2) ==
    LET translated == TranscriptTranslate(src, target)
        c3 == Append(c2, Call("translate", src, target, translated.raised))
    IN  IF translated.raised # NoExc
          THEN [response |-> TranslateExcept(translated.raised, video_id,
                                             source, target),
                calls    |-> c3]
          ELSE LET fetched == TranscriptFetch(translated.value)
                   c4 == Append(c3, Call("fetch", translated.value, <<>>,
                                         fetched.raised))
               IN  IF fetched.raised # NoExc
                     THEN [response |-> TranslateExcept(fetched.raised,
                                            video_id, source, target),
                           calls    |-> c4]
                     ELSE [response |-> TranslatedTranscriptResponse(
                                            video_id, source, target,
                                            translated.value, fetched.value),
                           calls    |-> c4]

TranslateAfterListing(video_id, source, target, listed) ==
    LET c1     == <<Call("list_transcripts", NoTranscript, <<video_id>>,
                         listed.raised)>>
    IN  IF listed.raised # NoExc
          THEN [response |-> TranslateExcept(listed.raised, video_id,
                                             source, target),
                calls    |-> c1]
          ELSE LET found == FindTranscript(listed.value, <<source>>,
                                           <<source>>)
                   c2 == Append(c1, Call("find_transcript", NoTranscript,
                                         source, found.raised))
               IN  IF found.raised # NoExc
                     THEN [response |-> TranslateExcept(found.raised,
                                            video_id, source, target),
                           calls    |-> c2]
                     ELSE TranslateAfterFind(video_id, source, target,
                                             found.value, c2)

TranslateTranscriptHandler(video_id, source, target) ==
    TranslateAfterListing(video_id, source, target,
                          ApiListTranscripts(video_id))

----------------------------------------------------------------------------
\* The state machine

NoRequest ==
    [endpoint |-> "none", video_id |-> "", language_codes |-> <<>>,
     given |-> FALSE, source_language_code |-> <<>>,
     target_language_code |-> <<>>]

NoResponse == [status |-> 0, body |-> [detail |-> <<>>]]

\* Requests in progress at the same time.
Slots == {1, 2}

NoListing == Raised(NoExc)

\* The locals of one handler call: where it stands, its parameters, what the
\* listing call gave it, and what it answers.
IdleFrame ==
    [pc |-> "idle", request |-> NoRequest, listed |-> NoListing,
     response |-> NoResponse, calls |-> <<>>]

NoRemembered == [request |-> NoRequest, response |-> NoResponse]

Init ==
    /\ collab \in CollabStates
    /\ request = NoRequest
    /\ response = NoResponse
    /\ calls = <<>>
    /\ frames = [s \in Slots |-> IdleFrame]
    /\ asked = [s \in Slots |-> NoRequest]
    /\ remembered = NoRemembered

ReadRoot ==
    /\ request = NoRequest
    /\ request' = [NoRequest EXCEPT !.endpoint = "root"]
    /\ response' = ReadRootHandler.response
    /\ calls' = ReadRootHandler.calls
    /\ UNCHANGED <<collab, serving>>

ListTranscripts ==
    /\ request = NoRequest
    /\ \E video_id \in Videos :
        LET handled == ListTranscriptsHandler(video_id)
        IN  /\ request' = [NoRequest EXCEPT !.endpoint = "list",
                                            !.video_id = video_id]
            /\ response' = handled.response
            /\ calls' = handled.calls
    /\ UNCHANGED <<collab, serving>>

\* language_codes: str = Query("en"): the default stands in when it is omitted.
\* preserve_formatting is accepted and never read.
FetchTranscript ==
    /\ request = NoRequest
    /\ \E video_id \in Videos, given \in BOOLEAN :
        \E language_codes \in (IF given THEN RawInputs ELSE {en}) :
            LET handled == FetchTranscriptHandler(video_id, language_codes)
            IN  /\ request' = [NoRequest EXCEPT
                                  !.endpoint = "fetch",
                                  !.video_id = video_id,
                                  !.given = given,
                                  !.language_codes = language_codes]
                /\ response' = handled.response
                /\ calls' = handled.calls
    /\ UNCHANGED <<collab, serving>>

TranslateTranscript ==
    /\ request = NoRequest
    /\ \E video_id \in Videos, source \in CodeInputs, target \in CodeInputs :
        LET handled == TranslateTranscriptHandler(video_id, source, target)
        IN  /\ request' = [NoRequest EXCEPT
                              !.endpoint = "translate",
                              !.video_id = video_id,
                              !.source_language_code = source,
                              !.target_language_code = target]
            /\ response' = handled.response
            /\ calls' = handled.calls
    /\ UNCHANGED <<collab, serving>>

\* The response leaves; nothing of the request stays behind.
Complete ==
    /\ request # NoRequest
    /\ request' = NoRequest
    /\ response' = NoResponse
    /\ calls' = <<>>
    /\ UNCHANGED <<collab, serving>>

\* The world behind the collaborator moves between requests: a transcript is
\* published or withdrawn, an operation starts or stops failing.
CollaboratorChanges ==
    /\ request = NoRequest
    /\ \E next \in CollabStates :
        /\ next # collab
        /\ \/ next.manual = collab.manual /\ next.generated = collab.generated
           \/ next.fault = collab.fault /\ next.generated = collab.generated
           \/ next.fault = collab.fault /\ next.manual = collab.manual
        /\ collab' = next
    /\ UNCHANGED <<request, response, calls, serving>>

Next ==
    \/ ReadRoot
    \/ ListTranscripts
    \/ FetchTranscript
    \/ TranslateTranscript
    \/ Complete
    \/ CollaboratorChanges

Spec == Init /\ [][Next]_vars

----------------------------------------------------------------------------
\* What the properties below read from a served request

DataEndpoints == {"list", "fetch", "translate"}

Detail == IF response.status = 200 THEN <<>> ELSE response.body.detail

\* The listing call of the request raised an exception of this kind.
ListingRaised(kind) ==
    /\ request.endpoint \in DataEndpoints
    /\ Len(calls) >= 1
    /\ calls[1].op = "list_transcripts"
    /\ calls[1].raised.kind = kind

ListingSucceeded ==
    /\ request.endpoint \in DataEndpoints
    /\ Len(calls) >= 1
    /\ calls[1].op = "list_transcripts"
    /\ calls[1].raised = NoExc

Invoked(op) == \E i \in 1..Len(calls) : calls[i].op = op

OpRaised(op, kind) ==
    \E i \in 1..Len(calls) : calls[i].op = op /\ calls[i].raised.kind = kind

Held(code) == InDict(code, collab.manual) \/ InDict(code, collab.generated)

PreferenceList == ParseLanguageCodes(request.language_codes)

----------------------------------------------------------------------------
\* C1: in the fetch endpoint, the descriptor selected is that of the first
\* preferred code held by the manually created or the generated mapping, the
\* manually created one when that code is in both; a generated transcript of
\* an earlier code wins over a manually created one of a later code.
C1_FetchSelection ==
    (request.endpoint = "fetch" /\ ListingSucceeded) =>
        \A i \in 1..Len(PreferenceList) :
            (Held(PreferenceList[i])
                /\ \A j \in 1..(i - 1) : ~Held(PreferenceList[j]))
            => /\ Len(calls) = 2
               /\ calls[2].op = "fetch"
               /\ calls[2].on.video_id = request.video_id
               /\ calls[2].on.language_code = PreferenceList[i]
               /\ calls[2].on.is_generated
                    = ~InDict(PreferenceList[i], collab.manual)
               /\ response.status = 200 =>
                    /\ response.body.language_code = PreferenceList[i]
                    /\ response.body.is_generated
                         = ~InDict(PreferenceList[i], collab.manual)

\* "en,de" with en only generated and de manually created: the generated en
\* transcript is fetched.
C1_Witness ==
    /\ request.endpoint = "fetch"
    /\ request.language_codes = <<"en", ",", "de">>
    /\ ~InDict(en, collab.manual) /\ InDict(en, collab.generated)
    /\ InDict(de, collab.manual)
    /\ response.status = 200
    /\ response.body.language_code = en
    /\ response.body.is_generated

\* C2: a listing call that signals "no transcript at all" ends every data
\* endpoint in 404 with a detail containing "No transcripts available".
C2_NoTranscriptAvailableIs404 ==
    ListingRaised("NoTranscriptAvailable") =>
        /\ response.status = 404
        /\ Contains(Detail, Words(<<"No", "transcripts", "available">>))

\* C3: a listing call that signals an unavailable video ends every data
\* endpoint in 404 with a detail containing the contiguous text
\* "Video not found or unavailable".
C3_VideoUnavailableText ==
    ListingRaised("VideoUnavailable") =>
        /\ response.status = 404
        /\ Contains(Detail,
                    Words(<<"Video", "not", "found", "or", "unavailable">>))

\* C4: a rate-limited listing call ends every data endpoint in 429 with the
\* detail "Too many requests. Please try again later.".
C4_RateLimitIs429 ==
    ListingRaised("TooManyRequests") =>
        /\ response.status = 429
        /\ Detail = <<"Too", Sp, "many", Sp, "requests", ".", Sp, "Please",
                      Sp, "try", Sp, "again", Sp, "later", ".">>

C4_Witness ==
    /\ ListingRaised("TooManyRequests")
    /\ request.endpoint = "translate"
    /\ request.target_language_code = xx
    /\ response.status = 429

\* C5: a listing call that signals disabled transcripts ends every data
\* endpoint in 404 with "Transcripts are disabled for video {id}." for the
\* requested id.
C5_DisabledIs404 ==
    ListingRaised("TranscriptsDisabled") =>
        /\ response.status = 404
        /\ Detail = <<"Transcripts", Sp, "are", Sp, "disabled", Sp, "for", Sp,
                      "video", Sp, request.video_id, ".">>

C5_Witness ==
    /\ ListingRaised("TranscriptsDisabled")
    /\ request.endpoint = "fetch"
    /\ request.video_id = "v2"
    /\ response.status = 404

\* C6: when the listing succeeds and no requested code is held by either
\* mapping, the fetch endpoint answers 404 with a detail containing "Could
\* not find transcript for any of the specified languages" and fetches
\* nothing.
C6_FetchMiss ==
    (request.endpoint = "fetch" /\ ListingSucceeded
        /\ \A i \in 1..Len(PreferenceList) : ~Held(PreferenceList[i]))
    => /\ response.status = 404
       /\ Contains(Detail,
                   Words(<<"Could", "not", "find", "transcript", "for", "any",
                           "of", "the", "specified", "languages">>))
       /\ ~Invoked("fetch")

\* Only de is held and en is asked for.
C6_Witness ==
    /\ request.endpoint = "fetch" /\ ListingSucceeded
    /\ request.language_codes = <<"en">>
    /\ collab.manual = <<de>> /\ collab.generated = <<>>
    /\ response.status = 404
    /\ ~Invoked("fetch")

\* C7: when the listing succeeds and the source code is held by neither
\* mapping, the translate endpoint answers 404 with "No transcript found for
\* source language '{code}' for video '{id}'." and never calls translate.
C7_SourceAbsent ==
    (request.endpoint = "translate" /\ ListingSucceeded
        /\ ~Held(request.source_language_code))
    => /\ response.status = 404
       /\ Detail = <<"No", Sp, "transcript", Sp, "found", Sp, "for", Sp,
                     "source", Sp, "language", Sp, "'">>
                    \o request.source_language_code
                    \o <<"'", Sp, "for", Sp, "video", Sp, "'",
                         request.video_id, "'", ".">>
       /\ ~Invoked("translate")
       /\ ~Invoked("fetch")

\* The source is absent and the target is one no transcript offers.
C7_Witness ==
    /\ request.endpoint = "translate" /\ ListingSucceeded
    /\ request.source_language_code = de
    /\ request.target_language_code = xx
    /\ collab.manual = <<en>> /\ collab.generated = <<>>
    /\ response.status = 404

\* C8: when translate signals that the target is not in the transcript's
\* translation set, the translate endpoint answers 400 with "Cannot
\* translate from '{source}' to '{target}'. Target language is not available
\* for this specific transcript." and fetches nothing.
C8_TargetNotOffered ==
    (request.endpoint = "translate"
        /\ OpRaised("translate", "TranslationLanguageNotAvailable"))
    => /\ response.status = 400
       /\ Detail = <<"Cannot", Sp, "translate", Sp, "from", Sp, "'">>
                    \o request.source_language_code
                    \o <<"'", Sp, "to", Sp, "'">>
                    \o request.target_language_code
                    \o <<"'", ".", Sp, "Target", Sp, "language", Sp, "is", Sp,
                         "not", Sp, "available", Sp, "for", Sp, "this", Sp,
                         "specific", Sp, "transcript", ".">>
       /\ ~Invoked("fetch")

C8_Witness ==
    /\ request.endpoint = "translate"
    /\ request.source_language_code = en
    /\ request.target_language_code = xx
    /\ OpRaised("translate", "TranslationLanguageNotAvailable")
    /\ response.status = 400

\* C9: when translate signals a transcript that cannot be translated at all,
\* the translate endpoint answers 400 with a detail containing
\* "is not translatable to '{target}'", and never the target-not-offered
\* detail.
C9_NotTranslatable ==
    (request.endpoint = "translate"
        /\ OpRaised("translate", "NotTranslatable"))
    => /\ response.status = 400
       /\ Contains(Detail,
                   <<"is", Sp, "not", Sp, "translatable", Sp, "to", Sp, "'">>
                      \o request.target_language_code \o <<"'">>)
       /\ ~Contains(Detail, <<"Cannot", Sp, "translate", Sp, "from">>)
       /\ ~Contains(Detail, <<"Target", Sp, "language", Sp, "is", Sp, "not",
                              Sp, "available">>)

\* The generated de transcript has no translation languages.
C9_Witness ==
    /\ request.endpoint = "translate"
    /\ request.source_language_code = de
    /\ request.target_language_code = en
    /\ collab.fault = NoFault
    /\ OpRaised("translate", "NotTranslatable")
    /\ response.status = 400

\* C10: every failure of a collaborator call, at any stage of any data
\* endpoint, ends the request in an error response with status 400, 404, 429
\* or 500, never 200; a failure outside the library's classes gives 500 with
\* a detail that includes the failure's description.
C10_ClassificationTotal ==
    \A i \in 1..Len(calls) :
        calls[i].raised # NoExc =>
            /\ request.endpoint \in DataEndpoints
            /\ response.status \in {400, 404, 429, 500}
            /\ calls[i].raised.kind = OtherKind => response.status = 500
            /\ response.status = 500 =>
                  Contains(Detail, calls[i].raised.msg)

\* The fetch of a translated transcript fails outside the library's classes.
C10_Witness ==
    /\ request.endpoint = "translate"
    /\ Len(calls) = 4
    /\ calls[4].op = "fetch"
    /\ calls[4].raised.kind = OtherKind
    /\ response.status = 500

----------------------------------------------------------------------------
\* What the except chain of the served endpoint answers to exception e.
ExceptOf(req, e) ==
    CASE req.endpoint = "list"  -> ListExcept(e, req.video_id)
      [] req.endpoint = "fetch" -> FetchExcept(e, req.video_id)
      [] OTHER -> TranslateExcept(e, req.video_id, req.source_language_code,
                                  req.target_language_code)

\* C11: an unclassified failure is answered by a generic 500: the response
\* is the same whatever the failure's description is.
C11_GenericBody ==
    \A i \in 1..Len(calls) :
        calls[i].raised.kind = OtherKind =>
            \A d \in Descriptions :
                ExceptOf(request, [kind |-> OtherKind, msg |-> d]) = response

\* The response entry m carries descriptor t: its four fields unchanged and
\* its translation languages one for one, each as {language, language_code}.
EntryCarries(m, t) ==
    /\ m.language = t.language
    /\ m.language_code = t.language_code
    /\ m.is_generated = t.is_generated
    /\ m.is_translatable = t.is_translatable
    /\ Len(m.translation_languages) = Len(t.translation_languages)
    /\ \A k \in 1..Len(t.translation_languages) :
          /\ DOMAIN m.translation_languages[k] = {"language", "language_code"}
          /\ m.translation_languages[k].language
                = t.translation_languages[k].language
          /\ m.translation_languages[k].language_code
                = t.translation_languages[k].language_code

\* C12: the list endpoint answers a returned transcript list with 200 and
\* one entry per key of each mapping, in the mapping's order, each entry
\* carrying its descriptor.
C12_ListMapping ==
    (request.endpoint = "list" /\ ListingSucceeded) =>
        /\ response.status = 200
        /\ response.body.video_id = request.video_id
        /\ Len(response.body.manually_created_transcripts)
              = Len(collab.manual)
        /\ Len(response.body.generated_transcripts) = Len(collab.generated)
        /\ \A i \in 1..Len(collab.manual) :
              EntryCarries(response.body.manually_created_transcripts[i],
                           Transcript(request.video_id, collab.manual[i],
                                      FALSE))
        /\ \A i \in 1..Len(collab.generated) :
              EntryCarries(response.body.generated_transcripts[i],
                           Transcript(request.video_id, collab.generated[i],
                                      TRUE))

\* Two manually created transcripts held in the order de, en, and a
\* generated de transcript without translation languages.
C12_Witness ==
    /\ request.endpoint = "list"
    /\ collab.manual = <<de, en>>
    /\ collab.generated = <<de>>
    /\ response.status = 200
    /\ Len(response.body.manually_created_transcripts) = 2
    /\ response.body.manually_created_transcripts[1].language_code = de
    /\ Len(response.body.manually_created_transcripts[1].translation_languages)
          = 2
    /\ response.body.generated_transcripts[1].translation_languages = <<>>

\* The segments the last collaborator call, a fetch that did not raise,
\* returned.
FetchedByLastCall == SegmentsOf(calls[Len(calls)].on.language_code)

\* C13: in every 200 response of the fetch and of the translate endpoint the
\* transcript array is, element by element and in length and order, the
\* segment sequence the fetch call returned.
C13_SegmentOrder ==
    (request.endpoint \in {"fetch", "translate"} /\ response.status = 200) =>
        /\ Len(calls) >= 2
        /\ calls[Len(calls)].op = "fetch"
        /\ calls[Len(calls)].raised = NoExc
        /\ Len(response.body.transcript) = Len(FetchedByLastCall)
        /\ \A i \in 1..Len(FetchedByLastCall) :
              /\ response.body.transcript[i].text = FetchedByLastCall[i].text
              /\ response.body.transcript[i].start
                    = FetchedByLastCall[i].start
              /\ response.body.transcript[i].duration
                    = FetchedByLastCall[i].duration

\* A fetched sequence that is out of playback order and repeats a segment.
C13_Witness ==
    /\ request.endpoint = "fetch"
    /\ response.status = 200
    /\ Len(response.body.transcript) = 3
    /\ response.body.transcript[1] = response.body.transcript[3]
    /\ response.body.transcript[1].start > response.body.transcript[2].start

----------------------------------------------------------------------------
\* The comma-separated, trimmed reading of a language_codes value, stated on
\* positions: piece k lies between the (k-1)-th and the k-th comma and runs
\* from its first to its last token that is not a blank.

CommasOf(raw) == {i \in 1..Len(raw) : raw[i] = ","}

KthOf(S, k) == CHOOSE x \in S : Cardinality({y \in S : y < x}) = k - 1

PieceOf(raw, k) ==
    LET from  == KthOf(CommasOf(raw) \cup {0}, k) + 1
        to    == KthOf(CommasOf(raw) \cup {Len(raw) + 1}, k) - 1
        solid == {i \in from..to : raw[i] # Sp}
    IN  IF solid = {} THEN <<>>
        ELSE SubSeq(raw,
                    CHOOSE i \in solid : \A j \in solid : i <= j,
                    CHOOSE i \in solid : \A j \in solid : i >= j)

TrimmedPieces(raw) ==
    [k \in 1..(Cardinality(CommasOf(raw)) + 1) |-> PieceOf(raw, k)]

RECURSIVE CommaJoined(_)
CommaJoined(pieces) ==
    IF Len(pieces) <= 1 THEN (IF pieces = <<>> THEN <<>> ELSE pieces[1])
    ELSE pieces[1] \o <<",">> \o CommaJoined(Tail(pieces))

\* C14: the fetch endpoint's preference list is the language_codes value
\* split on commas, each element trimmed, in the order given, and the single
\* code "en" when the parameter is omitted; a value with blanks around its
\* codes is answered as the same value without them.
C14_LanguageCodeParsing ==
    request.endpoint = "fetch" =>
        /\ ~request.given => request.language_codes = en
        /\ PreferenceList = TrimmedPieces(request.language_codes)
        /\ \A i \in 1..Len(TrimmedPieces(request.language_codes)) :
              (Held(TrimmedPieces(request.language_codes)[i])
                  /\ ListingSucceeded
                  /\ \A j \in 1..(i - 1) :
                        ~Held(TrimmedPieces(request.language_codes)[j]))
              => /\ Invoked("fetch")
                 /\ calls[2].on.language_code
                      = TrimmedPieces(request.language_codes)[i]
        /\ LET plain == FetchTranscriptHandler(
                            request.video_id,
                            CommaJoined(TrimmedPieces(request.language_codes)))
           IN  /\ response = plain.response
               /\ calls = plain.calls

\* " en , de" where only de is held: the second, trimmed code is fetched.
C14_Witness ==
    /\ request.endpoint = "fetch"
    /\ request.language_codes = <<Sp, "en", Sp, ",", Sp, "de">>
    /\ collab.manual = <<>> /\ collab.generated = <<de>>
    /\ response.status = 200
    /\ response.body.language_code = de

----------------------------------------------------------------------------
ListingFailureKinds ==
    {"TooManyRequests", "VideoUnavailable", "TranscriptsDisabled",
     "NoTranscriptAvailable"}

\* C16: in the fetch and translate endpoints the listing call is the first
\* collaborator call of every request; when it fails the request ends in an
\* error with no further call, and for a rate limit, an unavailable video,
\* disabled transcripts or no transcript at all the error is the same for
\* every value of the language parameters.
C16_ListingFailureFirst ==
    request.endpoint \in {"fetch", "translate"} =>
        /\ Len(calls) >= 1
        /\ calls[1].op = "list_transcripts"
        /\ calls[1].arg = <<request.video_id>>
        /\ calls[1].raised # NoExc =>
              /\ Len(calls) = 1
              /\ response.status \in {400, 404, 429, 500}
        /\ (calls[1].raised.kind \in ListingFailureKinds
                /\ request.endpoint = "fetch") =>
              \A raw \in RawInputs :
                  FetchTranscriptHandler(request.video_id, raw).response
                      = response
        /\ (calls[1].raised.kind \in ListingFailureKinds
                /\ request.endpoint = "translate") =>
              \A source \in CodeInputs, target \in CodeInputs :
                  TranslateTranscriptHandler(request.video_id, source,
                                             target).response = response

\* The listing fails for a request whose only language code is empty.
C16_Witness ==
    /\ request.endpoint = "fetch"
    /\ request.language_codes = <<>>
    /\ Len(calls) = 1
    /\ calls[1].raised.kind = "VideoUnavailable"
    /\ response.status = 404

----------------------------------------------------------------------------
\* Position of a collaborator operation in the order list, find, translate,
\* fetch.
OpRank(op) ==
    CASE op = "list_transcripts" -> 1
      [] op = "find_transcript"  -> 2
      [] op = "translate"        -> 3
      [] op = "fetch"            -> 4

\* C17: a request makes the listing call exactly once and first, then at
\* most one source lookup, one translate and one fetch in that order; only
\* the last call of a request can have failed, and then the response is the
\* classified error of that failure: a failed fetch() is followed by no
\* second selection or fetch and no segment is returned.
C17_NoRetryNoFallback ==
    request.endpoint \in DataEndpoints =>
        /\ Len(calls) >= 1
        /\ calls[1].op = "list_transcripts"
        /\ \A i \in 1..Len(calls), j \in 1..Len(calls) :
              i < j => OpRank(calls[i].op) < OpRank(calls[j].op)
        /\ \A i \in 1..Len(calls) :
              calls[i].raised # NoExc =>
                  /\ i = Len(calls)
                  /\ response = ExceptOf(request, calls[i].raised)
                  /\ response.status \in {400, 404, 429, 500}
        /\ (request.endpoint = "list") => Len(calls) = 1
        /\ (request.endpoint = "fetch") =>
              \A i \in 1..Len(calls) :
                  calls[i].op \in {"list_transcripts", "fetch"}

\* fetch() of the first preferred code failed while the second preferred
\* code is held as well.
C17_Witness ==
    /\ request.endpoint = "fetch"
    /\ Len(PreferenceList) = 2
    /\ PreferenceList[1] # PreferenceList[2]
    /\ Held(PreferenceList[1])
    /\ Held(PreferenceList[2])
    /\ Len(calls) = 2
    /\ calls[2].op = "fetch"
    /\ calls[2].on.language_code = PreferenceList[1]
    /\ calls[2].raised # NoExc
    /\ response.status = 500

----------------------------------------------------------------------------
\* Serving several requests at once.  A handler call is followed through the
\* points where control leaves it: before the listing call, after the
\* listing call, and at its return or raise.  The collaborator answers the
\* same throughout.

ServedFaults ==
    {f \in Faults :
        \/ f = NoFault
        \/ f.stage = "list_transcripts" /\ f.exc.kind = "TooManyRequests"
        \/ f.stage = "fetch" /\ f.exc = [kind |-> OtherKind, msg |-> <<"boom">>]}

ServedCollabStates ==
    {c \in CollabStates :
        /\ c.fault \in ServedFaults
        /\ Len(c.manual) <= 1
        /\ Len(c.generated) <= 1}

ServedRequests ==
    {[NoRequest EXCEPT !.endpoint = "root"]}
        \cup {[NoRequest EXCEPT !.endpoint = "list", !.video_id = v] :
                v \in Videos}
        \cup {[NoRequest EXCEPT !.endpoint = "fetch", !.video_id = v,
                                !.given = TRUE, !.language_codes = raw] :
                v \in Videos, raw \in {en, <<"de", ",", "en">>}}
        \cup {[NoRequest EXCEPT !.endpoint = "translate", !.video_id = v,
                                !.source_language_code = p[1],
                                !.target_language_code = p[2]] :
                v \in Videos, p \in {<<en, de>>, <<de, en>>}}

\* The route table: the handler a request is dispatched to.
Handler(req) ==
    CASE req.endpoint = "root"  -> ReadRootHandler
      [] req.endpoint = "list"  -> ListTranscriptsHandler(req.video_id)
      [] req.endpoint = "fetch" ->
            FetchTranscriptHandler(req.video_id, req.language_codes)
      [] OTHER ->
            TranslateTranscriptHandler(req.video_id, req.source_language_code,
                                       req.target_language_code)

\* The rest of a handler call once its listing call has returned or raised.
AfterListing(req, listed) ==
    CASE req.endpoint = "list"  -> ListAfterListing(req.video_id, listed)
      [] req.endpoint = "fetch" ->
            FetchAfterListing(req.video_id, req.language_codes, listed)
      [] OTHER ->
            TranslateAfterListing(req.video_id, req.source_language_code,
                                  req.target_language_code, listed)

\* A client kept across requests that refuses once a request was served.
ListingCallThrottled(fr) ==
    IF remembered # NoRemembered
      THEN Raised([kind |-> "TooManyRequests",
                   msg  |-> LibraryMessage("TooManyRequests")])
      ELSE ApiListTranscripts(fr.request.video_id)

\* YouTubeTranscriptApi().list_transcripts(video_id): a client made for this
\* call, asked once.
ListingCall(fr) == ApiListTranscripts(fr.request.video_id)

\* Parameters and locals kept in one place for every call.
StoreShared(fs, slot, fr) == [s \in Slots |-> fr]

\* Parameters and locals belong to the call that owns them.
StoreLocal(fs, slot, fr) == [fs EXCEPT ![slot] = fr]

InitServing ==
    /\ collab \in ServedCollabStates
    /\ request = NoRequest
    /\ response = NoResponse
    /\ calls = <<>>
    /\ frames = [s \in Slots |-> IdleFrame]
    /\ asked = [s \in Slots |-> NoRequest]
    /\ remembered = NoRemembered

sequential == <<collab, request, response, calls>>

ArriveAt(s) ==
    /\ frames[s].pc = "idle"
    /\ \E req \in ServedRequests :
        /\ asked' = [asked EXCEPT ![s] = req]
        /\ frames' = StoreLocal(frames, s,
                        [IdleFrame EXCEPT !.pc = "start", !.request = req])
    /\ UNCHANGED <<sequential, remembered>>

RunRootAt(s) ==
    /\ frames[s].pc = "start"
    /\ frames[s].request.endpoint = "root"
    /\ frames' = StoreLocal(frames, s,
                    [frames[s] EXCEPT !.pc = "done",
                                      !.response = ReadRootHandler.response,
                                      !.calls = ReadRootHandler.calls])
    /\ UNCHANGED <<sequential, asked, remembered>>

CallListingAt(s) ==
    /\ frames[s].pc = "start"
    /\ frames[s].request.endpoint \in DataEndpoints
    /\ frames' = StoreLocal(frames, s,
                    [frames[s] EXCEPT !.pc = "listed",
                                      !.listed = ListingCall(frames[s])])
    /\ UNCHANGED <<sequential, asked, remembered>>

ContinueAt(s) ==
    /\ frames[s].pc = "listed"
    /\ LET handled == AfterListing(frames[s].request, frames[s].listed)
       IN  frames' = StoreLocal(frames, s,
                        [frames[s] EXCEPT !.pc = "done",
                                          !.response = handled.response,
                                          !.calls = handled.calls])
    /\ UNCHANGED <<sequential, asked, remembered>>

\* The response leaves; the call's frame is gone.
DeliverAt(s) ==
    /\ frames[s].pc = "done"
    /\ remembered' \in {remembered,
                        [request  |-> frames[s].request,
                         response |-> frames[s].response]}
    /\ frames' = StoreLocal(frames, s, IdleFrame)
    /\ asked' = [asked EXCEPT ![s] = NoRequest]
    /\ UNCHANGED sequential

Arrive      == \E s \in Slots : ArriveAt(s)
RunRoot     == \E s \in Slots : RunRootAt(s)
CallListing == \E s \in Slots : CallListingAt(s)
Continue    == \E s \in Slots : ContinueAt(s)
Deliver     == \E s \in Slots : DeliverAt(s)

NextServing ==
    \/ Arrive
    \/ RunRoot
    \/ CallListing
    \/ Continue
    \/ Deliver

SpecServing == InitServing /\ [][NextServing]_vars

----------------------------------------------------------------------------
\* C15: with the collaborator unchanged, two requests with the same
\* parameters get the same status and body, whether they are in progress
\* together or one was served at any earlier time with any other requests
\* in between.
C15_Idempotence ==
    /\ \A s \in Slots, t \in Slots :
          (/\ frames[s].pc = "done"
           /\ frames[t].pc = "done"
           /\ frames[s].request = frames[t].request) =>
              frames[s].response = frames[t].response
    /\ \A s \in Slots :
          (/\ frames[s].pc = "done"
           /\ frames[s].request = remembered.request) =>
              frames[s].response = remembered.response

\* A fetch request answered 200 is answered again after a different request
\* was handled in between.
C15_Witness ==
    /\ frames[1].pc = "done"
    /\ frames[1].request.endpoint = "fetch"
    /\ frames[1].request = remembered.request
    /\ frames[1].response.status = 200
    /\ frames[2].pc = "done"
    /\ frames[2].request # frames[1].request

----------------------------------------------------------------------------
\* The guard of the step a request in progress takes next: it reads the
\* request's own frame and nothing else.
CanStep(s) ==
    \/ frames[s].pc = "start" /\ frames[s].request.endpoint = "root"
    \/ frames[s].pc = "start" /\ frames[s].request.endpoint \in DataEndpoints
    \/ frames[s].pc = "listed"
    \/ frames[s].pc = "done" /\ frames[s].response.status
                                    \in {200, 400, 404, 429, 500}

\* C18: however the steps of the requests in progress interleave, each
\* request keeps its own parameters and its own listing result, finishes
\* with the response and the calls it has when served alone, and the guard
\* of its next step holds until its response is there; this holds whatever
\* other requests ended in, errors included.
C18_RequestIsolation ==
    \A s \in Slots :
        /\ frames[s].pc = "idle" <=> asked[s] = NoRequest
        /\ frames[s].pc # "idle" =>
              /\ frames[s].request = asked[s]
              /\ CanStep(s)
        /\ frames[s].pc = "listed" =>
              frames[s].listed = ApiListTranscripts(asked[s].video_id)
        /\ frames[s].pc = "done" =>
              /\ frames[s].response = Handler(asked[s]).response
              /\ frames[s].calls = Handler(asked[s]).calls

\* After a request was answered 500, one request is answered 200 while
\* another request for another video is between its steps.
C18_Witness ==
    /\ remembered.response.status = 500
    /\ frames[1].pc = "listed"
    /\ frames[2].pc = "done"
    /\ frames[2].response.status = 200
    /\ frames[1].request.video_id # frames[2].request.video_id

====
